---- MODULE Spec2Model ----
(***************************************************************************)
(* A model of sipgen/pybinding.c, the Python bindings of the sip5 code     *)
(* generator: the three argument convertors (fs_convertor,                 *)
(* sipSpec_convertor, stringList_convertor), the diagnostic functions      *)
(* (warning, fatal, fatalStart) with their static flags, and the eight     *)
(* entry points of the extension module.                                   *)
(*                                                                         *)
(* Two specifications are given.  Spec drives the diagnostic functions     *)
(* (with py_set_globals, which sets their two policy flags); SpecDispatch  *)
(* drives the entry points.                                                *)
(***************************************************************************)
EXTENDS Integers, Sequences, FiniteSets, TLC

VARIABLES
    sipVersion,          \* unsigned sipVersion
    sipVersionStr,       \* const char *sipVersionStr
    includeDirList,      \* stringList *includeDirList
    warnings,            \* static int warnings
    warnings_are_fatal,  \* static int warnings_are_fatal
    warning_start,       \* static int start of warning()
    fatal_start,         \* static int start of fatalStart()
    stderr,              \* the writes made on stderr, oldest first
    exited,              \* TRUE once exit() has been called
    exit_status,         \* the argument of exit()
    n_alloc,             \* number of sipSpec structures sipMalloc() returned
    capsules,            \* the capsules py_parse returned to the host
    native_count,        \* number of native operations invoked so far
    last                 \* the most recent call, its arguments and outcome

vars == <<sipVersion, sipVersionStr, includeDirList, warnings,
          warnings_are_fatal, warning_start, fatal_start, stderr, exited,
          exit_status, n_alloc, capsules, native_count, last>>

diag_vars == <<warning_start, fatal_start, stderr, exited, exit_status>>
glob_vars == <<sipVersion, sipVersionStr, includeDirList, warnings,
               warnings_are_fatal>>
disp_vars == <<n_alloc, capsules, native_count>>

(***************************************************************************)
(* Bounds of the model.                                                    *)
(***************************************************************************)
MaxLen == 2     \* longest host list handed to stringList_convertor
MaxOut == 4     \* most writes on stderr
MaxCalls == 3   \* most native operations invoked

(***************************************************************************)
(* Host (Python) values.  A str is a sequence of code points: "a" and "b"  *)
(* are encodable characters, "D800" is a lone surrogate, which no strict   *)
(* encoding represents.                                                    *)
(***************************************************************************)
PyNone == [k |-> "None"]
PyStr(s) == [k |-> "str", s |-> s]
PyBool(b) == [k |-> "bool", b |-> b]
PyInt(n) == [k |-> "int", n |-> n]
PyList(items) == [k |-> "list", items |-> items]
PyTuple(items) == [k |-> "tuple", items |-> items]
PyCapsule(ptr, name) == [k |-> "capsule", ptr |-> ptr, name |-> name]

\* The name of a capsule created with a NULL name.
NoName == "(null)"

(***************************************************************************)
(* Native values.  A char * is NULL or points to a byte string; a          *)
(* stringList * is NULL (the empty tuple) or points to a node <<s, next>>. *)
(***************************************************************************)
NullStr == [null |-> TRUE, s |-> <<>>]
CStr(bytes) == [null |-> FALSE, s |-> bytes]
NullList == <<>>

\* An appendString() that links the new entry at the head.
appendString_at_head(head, s) == <<s, head>>

RECURSIVE appendString(_, _)
appendString(head, s) ==
    IF head = NullList
    THEN <<s, NullList>>
    ELSE <<head[1], appendString(head[2], s)>>

RECURSIVE ListLen(_)
ListLen(head) == IF head = NullList THEN 0 ELSE 1 + ListLen(head[2])

RECURSIVE ListNth(_, _)
ListNth(head, i) == IF i = 1 THEN head[1] ELSE ListNth(head[2], i - 1)

(***************************************************************************)
(* Encoding a str to bytes (PyUnicode_EncodeFSDefault,                     *)
(* PyUnicode_EncodeLocale with the strict handler, the "s" format unit):   *)
(* fails on a value that is not a str and on a character the encoding      *)
(* cannot represent, otherwise yields one byte per character.              *)
(***************************************************************************)
Encodable(c) == c \in {"a", "b"}
ByteOf(c) == IF c = "a" THEN 97 ELSE 98

Encode(obj) ==
    IF obj.k # "str"
    THEN [ok |-> FALSE, err |-> "TypeError", bytes |-> <<>>]
    ELSE IF \E i \in 1..Len(obj.s) : ~Encodable(obj.s[i])
    THEN [ok |-> FALSE, err |-> "UnicodeEncodeError", bytes |-> <<>>]
    ELSE [ok |-> TRUE, err |-> "",
          bytes |-> [i \in 1..Len(obj.s) |-> ByteOf(obj.s[i])]]

PyUnicode_EncodeFSDefault(obj) == Encode(obj)
PyUnicode_EncodeLocale(obj) == Encode(obj)

(***************************************************************************)
(* The convertors.  Each yields ret (1 success, 0 failure), the exception  *)
(* set, whether the output variable was written, and what was written.     *)
(***************************************************************************)
\* An fs_convertor() that hands an empty str over as no value.
fs_convertor_empty_is_null(obj) ==
    IF obj = PyNone \/ obj = PyStr(<<>>)
    THEN [ret |-> 1, err |-> "", set |-> TRUE, out |-> NullStr]
    ELSE LET bytes == PyUnicode_EncodeFSDefault(obj)
         IN IF ~bytes.ok
            THEN [ret |-> 0, err |-> bytes.err, set |-> FALSE, out |-> NullStr]
            ELSE [ret |-> 1, err |-> "", set |-> TRUE, out |-> CStr(bytes.bytes)]

fs_convertor(obj) ==
    IF obj = PyNone
    THEN [ret |-> 1, err |-> "", set |-> TRUE, out |-> NullStr]
    ELSE LET bytes == PyUnicode_EncodeFSDefault(obj)
         IN IF ~bytes.ok
            THEN [ret |-> 0, err |-> bytes.err, set |-> FALSE, out |-> NullStr]
            ELSE [ret |-> 1, err |-> "", set |-> TRUE, out |-> CStr(bytes.bytes)]

PyCapsule_GetPointer(obj, name) ==
    IF obj.ptr = 0 \/ obj.name # name
    THEN [ptr |-> 0, err |-> "ValueError"]
    ELSE [ptr |-> obj.ptr, err |-> ""]

\* A sipSpec_convertor() that does not test the pointer of the capsule.
sipSpec_convertor_unchecked(obj) ==
    IF obj.k # "capsule"
    THEN [ret |-> 0, err |-> "TypeError: parse tree expected",
          set |-> FALSE, out |-> 0]
    ELSE [ret |-> 1, err |-> "", set |-> TRUE,
          out |-> PyCapsule_GetPointer(obj, NoName).ptr]

sipSpec_convertor(obj) ==
    IF obj.k # "capsule"
    THEN [ret |-> 0, err |-> "TypeError: parse tree expected",
          set |-> FALSE, out |-> 0]
    ELSE LET p == PyCapsule_GetPointer(obj, NoName)
         IN IF p.ptr = 0
            THEN [ret |-> 0, err |-> p.err, set |-> TRUE, out |-> 0]
            ELSE [ret |-> 1, err |-> "", set |-> TRUE, out |-> p.ptr]

RECURSIVE stringList_loop(_, _, _)
stringList_loop(items, i, sl) ==
    IF i > Len(items)
    THEN [ret |-> 1, err |-> "", set |-> TRUE, out |-> sl]
    ELSE LET el == PyUnicode_EncodeLocale(items[i])
         IN IF ~el.ok
            THEN [ret |-> 0, err |-> el.err, set |-> TRUE, out |-> sl]
            ELSE stringList_loop(items, i + 1,
                                 appendString(sl, CStr(el.bytes)))

stringList_convertor(obj) ==
    IF obj = PyNone
    THEN [ret |-> 1, err |-> "", set |-> TRUE, out |-> NullList]
    ELSE IF obj.k # "list"
    THEN [ret |-> 0, err |-> "TypeError: list of str expected",
          set |-> TRUE, out |-> NullList]
    ELSE stringList_loop(obj.items, 1, NullList)

(***************************************************************************)
(* PyArg_ParseTuple: the format units are converted left to right, each    *)
(* output is written as soon as its unit is converted, and the first       *)
(* failure stops the parse.                                                *)
(***************************************************************************)
PyObject_IsTrue(obj) ==
    CASE obj.k = "None" -> FALSE
      [] obj.k = "bool" -> obj.b
      [] obj.k = "int" -> obj.n # 0
      [] obj.k = "str" -> Len(obj.s) > 0
      [] obj.k \in {"list", "tuple"} -> Len(obj.items) > 0
      [] OTHER -> TRUE

Unset == [set |-> FALSE, out |-> 0]

Convert(unit, obj) ==
    CASE unit = "O&fs_convertor" -> fs_convertor(obj)
      [] unit = "O&sipSpec_convertor" -> sipSpec_convertor(obj)
      [] unit = "O&stringList_convertor" -> stringList_convertor(obj)
      [] unit = "p" ->
            [ret |-> 1, err |-> "", set |-> TRUE, out |-> PyObject_IsTrue(obj)]
      [] unit \in {"i", "I"} ->
            IF obj.k = "int"
            THEN [ret |-> 1, err |-> "", set |-> TRUE, out |-> obj.n]
            ELSE [ret |-> 0, err |-> "TypeError", set |-> FALSE, out |-> 0]
      [] unit = "s" ->
            LET bytes == Encode(obj)
            IN IF bytes.ok
               THEN [ret |-> 1, err |-> "", set |-> TRUE,
                     out |-> CStr(bytes.bytes)]
               ELSE [ret |-> 0, err |-> bytes.err, set |-> FALSE, out |-> 0]

RECURSIVE ParseFrom(_, _, _, _)
ParseFrom(units, args, i, outs) ==
    IF i > Len(units)
    THEN [ok |-> TRUE, err |-> "", pos |-> 0, outs |-> outs]
    ELSE LET c == Convert(units[i], args[i])
             written == IF c.set
                        THEN [outs EXCEPT ![i] = [set |-> TRUE, out |-> c.out]]
                        ELSE outs
         IN IF c.ret = 0
            THEN [ok |-> FALSE, err |-> c.err, pos |-> i, outs |-> written]
            ELSE ParseFrom(units, args, i + 1, written)

PyArg_ParseTuple(units, args) ==
    IF Len(args) # Len(units)
    THEN [ok |-> FALSE, err |-> "TypeError", pos |-> 0,
          outs |-> [i \in 1..Len(units) |-> Unset]]
    ELSE ParseFrom(units, args, 1, [i \in 1..Len(units) |-> Unset])

(***************************************************************************)
(* Formatted output.  A format is a sequence of tokens: "%s" is replaced   *)
(* by the next argument (itself a sequence of tokens), every other token   *)
(* is written as it is.  "\n" is the line terminator.                      *)
(***************************************************************************)
RECURSIVE Format(_, _)
Format(fmt, args) ==
    IF fmt = <<>>
    THEN <<>>
    ELSE IF Head(fmt) = "%s"
    THEN Head(args) \o Format(Tail(fmt), Tail(args))
    ELSE <<Head(fmt)>> \o Format(Tail(fmt), args)

strchr(s, c) == \E i \in 1..Len(s) : s[i] = c

\* What a call gives back when it is not a host value: NULL with an
\* exception set, or nothing at all because the process exited in the call.
RetNull == [k |-> "NULL"]
NoReturn == [k |-> "exit"]

\* One write on stderr: which statement made it, the warning category (if
\* any), the format it was given and the text it produced.
Write(kind, w, fmt, args) ==
    [kind |-> kind, w |-> w, fmt |-> fmt, out |-> Format(fmt, args)]

(***************************************************************************)
(* The diagnostic functions.                                               *)
(***************************************************************************)
\* A warning() that lets the flag suppress every category.
warning_suppressed_any(w) == ~warnings

\* warning(): the test that drops a warning without writing anything.
warning_suppressed(w) == ~warnings /\ w # "DeprecationWarning"

\* A warning() whose switch gives every category the parser label.
wstr_parser_only(w) == "Parser warning"

\* warning(): the switch that picks the label of a category.
wstr(w) ==
    IF w = "ParserWarning" THEN "Parser warning" ELSE "Deprecation warning"

\* A warning() that looks for the wrong terminator.
warning_ends_cr(fmt) == strchr(fmt, "\r")

\* warning(): the test that ends the message after the fragment is written.
warning_ends(fmt) == strchr(fmt, "\n")

\* A warning() that does not promote deprecation warnings.
warning_is_fatal_parser_only(w) ==
    warnings_are_fatal /\ w # "DeprecationWarning"

\* warning(): the test that turns the end of a message into exit(1).
warning_is_fatal(w) == warnings_are_fatal

\* A warning() that writes the label before every fragment.
warning_writes_always_label(w, fmt, args) ==
    <<Write("label", w, <<"sip5: ", "%s", ": ">>, <<<<wstr(w)>>>>),
      Write("text", w, fmt, args)>>

\* warning(): the writes made by one call that is not suppressed.
warning_writes(w, fmt, args) ==
    (IF warning_start
     THEN <<Write("label", w, <<"sip5: ", "%s", ": ">>, <<<<wstr(w)>>>>)>>
     ELSE <<>>)
    \o <<Write("text", w, fmt, args)>>

warning_call(w, fmt, args) ==
    /\ ~exited
    /\ Len(stderr) + Len(warning_writes(w, fmt, args)) <= MaxOut
    /\ last' = [op |-> "warning", w |-> w, fmt |-> fmt, args |-> args]
    /\ IF warning_suppressed(w)
       THEN UNCHANGED diag_vars
       ELSE /\ stderr' = stderr \o warning_writes(w, fmt, args)
            /\ IF warning_ends(fmt)
               THEN IF warning_is_fatal(w)
                    THEN /\ exited' = TRUE
                         /\ exit_status' = 1
                         /\ warning_start' = FALSE
                    ELSE /\ warning_start' = TRUE
                         /\ UNCHANGED <<exited, exit_status>>
               ELSE /\ warning_start' = FALSE
                    /\ UNCHANGED <<exited, exit_status>>
            /\ UNCHANGED fatal_start
    /\ UNCHANGED <<glob_vars, disp_vars>>

\* A fatalStart() that ignores its flag.
fatalStart_writes_always == <<Write("prefix", "-", <<"sip5: ">>, <<>>)>>

\* fatalStart(): the writes it makes.
fatalStart_writes ==
    IF fatal_start THEN <<Write("prefix", "-", <<"sip5: ">>, <<>>)>> ELSE <<>>

fatalStart ==
    /\ ~exited
    /\ Len(stderr) + Len(fatalStart_writes) <= MaxOut
    /\ last' = [op |-> "fatalStart"]
    /\ stderr' = stderr \o fatalStart_writes
    /\ fatal_start' = FALSE
    /\ UNCHANGED <<warning_start, exited, exit_status, glob_vars, disp_vars>>

\* fatal(): fatalStart(), the message, exit(1).
fatal_effect(fmt, args) ==
    /\ stderr' = (stderr \o fatalStart_writes)
                    \o <<Write("fatal", "-", fmt, args)>>
    /\ fatal_start' = FALSE
    /\ exited' = TRUE
    /\ exit_status' = 1
    /\ UNCHANGED warning_start

fatal_call(fmt, args) ==
    /\ ~exited
    /\ Len(stderr) + Len(fatalStart_writes) + 1 <= MaxOut
    /\ last' = [op |-> "fatal", fmt |-> fmt, args |-> args]
    /\ fatal_effect(fmt, args)
    /\ UNCHANGED <<glob_vars, disp_vars>>

\* The calls made on the diagnostic functions: a format with or without a
\* line terminator, and one whose only line terminator is in its argument.
Categories == {"ParserWarning", "DeprecationWarning"}
Messages ==
    { [fmt |-> <<"x">>, args |-> <<>>],
      [fmt |-> <<"x", "\n">>, args |-> <<>>],
      [fmt |-> <<"%s">>, args |-> << <<"y", "\n">> >>],
      [fmt |-> <<"%s", "\n">>, args |-> << <<"y">> >>] }

warning == \E w \in Categories, m \in Messages : warning_call(w, m.fmt, m.args)

fatal == \E m \in Messages : fatal_call(m.fmt, m.args)

(***************************************************************************)
(* py_set_globals: "IsO&pp" writes the five globals as it goes.            *)
(***************************************************************************)
Bools == {PyBool(TRUE), PyBool(FALSE)}
Texts == {PyStr(<<"a">>), PyStr(<<"b">>), PyStr(<<"D800">>)}

RECURSIVE SeqsUpTo(_, _)
SeqsUpTo(S, n) ==
    IF n = 0
    THEN {<<>>}
    ELSE LET shorter == SeqsUpTo(S, n - 1)
         IN shorter \cup {Append(q, x) : q \in shorter, x \in S}

\* What a caller may hand to a string list parameter.
ListArgs ==
    {PyNone, PyInt(7), PyStr(<<"a">>), PyTuple(<<PyStr(<<"a">>)>>)}
        \cup {PyList(q) : q \in SeqsUpTo(Texts, MaxLen)}

py_set_globals_call(args) ==
    LET p == PyArg_ParseTuple(
                 <<"I", "s", "O&stringList_convertor", "p", "p">>, args)
        get(i, old) == IF p.outs[i].set THEN p.outs[i].out ELSE old
    IN /\ ~exited
       /\ sipVersion' = get(1, sipVersion)
       /\ sipVersionStr' = get(2, sipVersionStr)
       /\ includeDirList' = get(3, includeDirList)
       /\ warnings' = get(4, warnings)
       /\ warnings_are_fatal' = get(5, warnings_are_fatal)
       /\ last' = [op |-> "py_set_globals", args |-> args, parsed |-> p,
                   ret |-> IF p.ok THEN PyNone ELSE RetNull]
       /\ UNCHANGED <<diag_vars, disp_vars>>

\* The calls made on py_set_globals: every setting of the two flags, and a
\* call whose include directories are not a list.
GlobalsCalls ==
    {<<PyInt(5), PyStr(<<"a">>), PyNone, w, f>> : w \in Bools, f \in Bools}
        \cup {<<PyInt(5), PyStr(<<"a">>), PyInt(7), PyBool(TRUE), PyBool(TRUE)>>}

py_set_globals == \E args \in GlobalsCalls : py_set_globals_call(args)

(***************************************************************************)
(* The state after the module is loaded, and the diagnostic specification. *)
(***************************************************************************)
Init ==
    /\ sipVersion = 0
    /\ sipVersionStr = NullStr
    /\ includeDirList = NullList
    /\ warnings = FALSE
    /\ warnings_are_fatal = FALSE
    /\ warning_start = TRUE
    /\ fatal_start = TRUE
    /\ stderr = <<>>
    /\ exited = FALSE
    /\ exit_status = 0
    /\ n_alloc = 0
    /\ capsules = {}
    /\ native_count = 0
    /\ last = [op |-> "none"]

Next == py_set_globals \/ warning \/ fatal \/ fatalStart

Spec == Init /\ [][Next]_vars

(***************************************************************************)
(* The entry points that wrap a native operation.  A native operation      *)
(* either returns or reports a fatal error, which ends the process through *)
(* fatal().                                                                *)
(***************************************************************************)
sipMalloc == n_alloc + 1

PyCapsule_New(pointer) == PyCapsule(pointer, NoName)

\* The entry point returns NULL to the host: an argument was not converted.
conversion_failed(op, args, p) ==
    /\ last' = [op |-> op, args |-> args, parsed |-> p, native |-> <<>>,
                ret |-> RetNull]
    /\ UNCHANGED <<diag_vars, native_count>>

\* The native operation nop is called once with nargs; ret is what the entry
\* point returns to the host if the operation returns.
call_native(op, args, p, nop, nargs, ret) ==
    /\ native_count' = native_count + 1
    /\ \/ /\ last' = [op |-> op, args |-> args, parsed |-> p,
                      native |-> <<[op |-> nop, args |-> nargs]>>,
                      ret |-> ret]
          /\ UNCHANGED diag_vars
       \/ /\ last' = [op |-> op, args |-> args, parsed |-> p,
                      native |-> <<[op |-> nop, args |-> nargs]>>,
                      ret |-> NoReturn]
          /\ fatal_effect(<<"x", "\n">>, <<>>)

py_parse_call(args) ==
    LET p == PyArg_ParseTuple(
                 <<"O&fs_convertor", "p", "O&stringList_convertor",
                   "O&stringList_convertor", "O&stringList_convertor",
                   "p", "p">>, args)
        pt == sipMalloc
        given == p.outs[1].out
        file == IF ~given.null THEN "NULL" ELSE "stdin"
        filename == IF ~given.null
                    THEN given
                    ELSE CStr(<<115, 116, 100, 105, 110>>)
    IN /\ ~exited
       /\ native_count < MaxCalls
       /\ IF ~p.ok
          THEN /\ conversion_failed("py_parse", args, p)
               /\ UNCHANGED <<n_alloc, capsules>>
          ELSE /\ n_alloc' = pt
               /\ call_native("py_parse", args, p, "parse",
                      <<pt, file, filename, p.outs[2].out, p.outs[3].out,
                        p.outs[4].out, p.outs[5].out,
                        IF p.outs[6].out THEN "AllKwArgs" ELSE "NoKwArgs",
                        p.outs[7].out>>,
                      PyCapsule_New(pt))
               /\ capsules' = IF exited'
                              THEN capsules
                              ELSE capsules \cup {PyCapsule_New(pt)}
       /\ UNCHANGED glob_vars

\* A py_transform() that goes on after a failed conversion.
py_transform_unchecked(args) ==
    LET p == PyArg_ParseTuple(<<"O&sipSpec_convertor", "p">>, args)
    IN /\ ~exited
       /\ native_count < MaxCalls
       /\ call_native("py_transform", args, p, "transform",
              <<p.outs[1].out, p.outs[2].out>>, PyNone)
       /\ UNCHANGED <<glob_vars, n_alloc, capsules>>

py_transform_call(args) ==
    LET p == PyArg_ParseTuple(<<"O&sipSpec_convertor", "p">>, args)
    IN /\ ~exited
       /\ native_count < MaxCalls
       /\ IF ~p.ok
          THEN conversion_failed("py_transform", args, p)
          ELSE call_native("py_transform", args, p, "transform",
                   <<p.outs[1].out, p.outs[2].out>>, PyNone)
       /\ UNCHANGED <<glob_vars, n_alloc, capsules>>

py_generateCode_call(args) ==
    LET p == PyArg_ParseTuple(
                 <<"O&sipSpec_convertor", "O&fs_convertor", "O&fs_convertor",
                   "p", "p", "p", "i", "O&stringList_convertor",
                   "O&stringList_convertor", "p", "p", "s">>, args)
        o(i) == p.outs[i].out
    IN /\ ~exited
       /\ native_count < MaxCalls
       /\ IF ~p.ok
          THEN conversion_failed("py_generateCode", args, p)
          ELSE call_native("py_generateCode", args, p, "generateCode",
                   <<o(1), o(2), "NULL", "NULL", o(3), o(4), o(5), o(6),
                     o(7), o(8), o(9), "NULL", o(10), o(11), o(12)>>,
                   PyNone)
       /\ UNCHANGED <<glob_vars, n_alloc, capsules>>

py_generateExtracts_call(args) ==
    LET p == PyArg_ParseTuple(
                 <<"O&sipSpec_convertor", "O&stringList_convertor">>, args)
    IN /\ ~exited
       /\ native_count < MaxCalls
       /\ IF ~p.ok
          THEN conversion_failed("py_generateExtracts", args, p)
          ELSE call_native("py_generateExtracts", args, p,
                   "generateExtracts", <<p.outs[1].out, p.outs[2].out>>,
                   PyNone)
       /\ UNCHANGED <<glob_vars, n_alloc, capsules>>

\* pt->module, the field of the parse tree the last three wrappers read.
module_of(pt) == [module_of |-> pt]

py_generateAPI_call(args) ==
    LET p == PyArg_ParseTuple(<<"O&sipSpec_convertor", "O&fs_convertor">>, args)
    IN /\ ~exited
       /\ native_count < MaxCalls
       /\ IF ~p.ok
          THEN conversion_failed("py_generateAPI", args, p)
          ELSE call_native("py_generateAPI", args, p, "generateAPI",
                   <<p.outs[1].out, module_of(p.outs[1].out), p.outs[2].out>>,
                   PyNone)
       /\ UNCHANGED <<glob_vars, n_alloc, capsules>>

py_generateXML_call(args) ==
    LET p == PyArg_ParseTuple(<<"O&sipSpec_convertor", "O&fs_convertor">>, args)
    IN /\ ~exited
       /\ native_count < MaxCalls
       /\ IF ~p.ok
          THEN conversion_failed("py_generateXML", args, p)
          ELSE call_native("py_generateXML", args, p, "generateXML",
                   <<p.outs[1].out, module_of(p.outs[1].out), p.outs[2].out>>,
                   PyNone)
       /\ UNCHANGED <<glob_vars, n_alloc, capsules>>

py_generateTypeHints_call(args) ==
    LET p == PyArg_ParseTuple(<<"O&sipSpec_convertor", "O&fs_convertor">>, args)
    IN /\ ~exited
       /\ native_count < MaxCalls
       /\ IF ~p.ok
          THEN conversion_failed("py_generateTypeHints", args, p)
          ELSE call_native("py_generateTypeHints", args, p,
                   "generateTypeHints",
                   <<p.outs[1].out, module_of(p.outs[1].out), p.outs[2].out>>,
                   PyNone)
       /\ UNCHANGED <<glob_vars, n_alloc, capsules>>

(***************************************************************************)
(* What the host hands to the entry points.                                *)
(***************************************************************************)
\* A path: no value, the empty str, a str, a str that cannot be encoded,
\* and a value that is not a str.
PathArgs ==
    {PyNone, PyStr(<<>>), PyStr(<<"a">>), PyStr(<<"D800">>), PyInt(7)}

\* A parse tree: the capsules py_parse returned, no value, a capsule whose
\* pointer is null and a capsule of another name.
HandleArgs ==
    capsules \cup {PyNone, PyCapsule(0, NoName), PyCapsule(1, "other")}

FewLists == {PyNone, PyList(<<PyStr(<<"a">>)>>), PyInt(7)}

\* The values tried for a parameter that follows the parse tree: all of S
\* when the parse tree converts, one of them when it does not (the parse
\* stops at the parse tree and never looks at them).
After(pt, S, d) == IF pt \in capsules THEN S ELSE {d}

py_parse ==
    \E f \in PathArgs, v \in FewLists,
       b \in {PyNone, PyList(<<PyStr(<<"D800">>)>>)}, kw \in Bools :
        py_parse_call(<<f, PyBool(TRUE), v, b, PyNone, kw, PyBool(FALSE)>>)

py_transform ==
    \E pt \in HandleArgs :
        \E strict \in After(pt, Bools, PyBool(TRUE)) :
            py_transform_call(<<pt, strict>>)

py_generateCode ==
    \E pt \in HandleArgs :
        \E dir \in After(pt, {PyStr(<<"a">>), PyStr(<<"D800">>)}, PyNone),
           parts \in After(pt, {PyInt(2), PyStr(<<"a">>)}, PyInt(2)),
           v \in After(pt, {PyList(<<PyStr(<<"a">>)>>), PyInt(7)}, PyNone),
           name \in After(pt, {PyStr(<<"a">>), PyNone}, PyNone) :
            py_generateCode_call(
                <<pt, dir, PyStr(<<"b">>), PyBool(TRUE), PyBool(FALSE),
                  PyBool(TRUE), parts, v, PyNone, PyBool(FALSE),
                  PyBool(FALSE), name>>)

py_generateExtracts ==
    \E pt \in HandleArgs :
        \E l \in After(pt, ListArgs, PyNone) :
            py_generateExtracts_call(<<pt, l>>)

py_generateAPI ==
    \E pt \in HandleArgs :
        \E f \in After(pt, PathArgs, PyNone) : py_generateAPI_call(<<pt, f>>)

py_generateXML ==
    \E pt \in HandleArgs :
        \E f \in After(pt, PathArgs, PyNone) : py_generateXML_call(<<pt, f>>)

py_generateTypeHints ==
    \E pt \in HandleArgs :
        \E f \in After(pt, PathArgs, PyNone) :
            py_generateTypeHints_call(<<pt, f>>)

NextDispatch ==
    \/ py_parse
    \/ py_transform
    \/ py_generateCode
    \/ py_generateExtracts
    \/ py_generateAPI
    \/ py_generateXML
    \/ py_generateTypeHints

SpecDispatch == Init /\ [][NextDispatch]_vars

(***************************************************************************)
(* Properties of the diagnostic functions (checked under Spec).            *)
(***************************************************************************)
HasNL(text) == \E i \in 1..Len(text) : text[i] = "\n"

\* The step is a call of warning() that wrote on stderr.
WarningEmitted ==
    last'.op = "warning" /\ Len(stderr') > Len(stderr)

\* The writes of warning() on stderr, in order.
WarningLog == SelectSeq(stderr, LAMBDA e : e.kind \in {"label", "text"})

\* The fragments written before position i of a log.
TextsBefore(W, i) == {j \in 1..(i - 1) : W[j].kind = "text"}
PrevText(W, i) ==
    CHOOSE j \in TextsBefore(W, i) : \A h \in TextsBefore(W, i) : h <= j
Labelled(W, i) == i > 1 /\ W[i - 1].kind = "label"
LabelText(c) ==
    IF c = "ParserWarning"
    THEN <<"sip5: ", "Parser warning", ": ">>
    ELSE <<"sip5: ", "Deprecation warning", ": ">>

\* C1: a DeprecationWarning call always writes its fragment, a ParserWarning
\* call writes its fragment if and only if warnings is set, and a suppressed
\* ParserWarning call changes nothing: no write, the start flag is kept and
\* the process goes on.
C1_Suppression ==
    [][last'.op = "warning" =>
        LET emitted == /\ Len(stderr') > Len(stderr)
                       /\ stderr'[Len(stderr')] =
                            Write("text", last'.w, last'.fmt, last'.args)
        IN /\ last'.w = "DeprecationWarning" => emitted
           /\ last'.w = "ParserWarning" => (emitted <=> warnings)
           /\ (last'.w = "ParserWarning" /\ ~warnings) =>
                 /\ UNCHANGED <<stderr, warning_start, fatal_start>>
                 /\ UNCHANGED <<exited, exit_status>>
                 /\ ~exited']_vars

C1_Witness ==
    /\ last.op = "warning"
    /\ last.w = "ParserWarning"
    /\ ~warnings
    /\ ~exited
    /\ Len(stderr) = 2
    /\ stderr[2].w = "DeprecationWarning"

\* C2 as claimed: a call of either category that wrote a fragment whose text
\* holds a line terminator exits with status 1 if warnings_are_fatal is set
\* and does not exit if it is not; a call never exits when the text written
\* holds no line terminator.
C2_AsClaimed ==
    [][WarningEmitted =>
        LET text == stderr'[Len(stderr')].out
        IN /\ (HasNL(text) /\ warnings_are_fatal) =>
                 (exited' /\ exit_status' = 1)
           /\ (HasNL(text) /\ ~warnings_are_fatal) => ~exited'
           /\ ~HasNL(text) => ~exited']_vars

\* C2 amended: a call of either category that wrote a fragment exits, with
\* status 1, exactly when warnings_are_fatal is set and the format string
\* of the fragment holds a line terminator.
C2_FatalOnFormat ==
    [][WarningEmitted =>
        /\ exited' <=> (warnings_are_fatal /\ HasNL(last'.fmt))
        /\ exited' => exit_status' = 1]_vars

C2_Witness ==
    /\ last.op = "warning"
    /\ last.w = "DeprecationWarning"
    /\ HasNL(last.fmt)
    /\ exited
    /\ exit_status = 1
    /\ warnings_are_fatal

\* C3: a call of fatal() writes its message and exits with status 1 whatever
\* the flags and the calls made before it, the "sip5: " prefix is on stderr
\* once and never twice (fatal() does not repeat what fatalStart() wrote),
\* and no call is made once the process has exited.
PrefixCount(log) == Cardinality({i \in 1..Len(log) : log[i].kind = "prefix"})

C3_Fatal ==
    [][/\ ~exited
       /\ PrefixCount(stderr') <= 1
       /\ last'.op = "fatal" =>
            /\ exited'
            /\ exit_status' = 1
            /\ stderr'[Len(stderr')] =
                 Write("fatal", "-", last'.fmt, last'.args)
            /\ PrefixCount(stderr') = 1
            /\ ~fatal_start => stderr' = Append(stderr, stderr'[Len(stderr')])
       ]_vars

C3_Witness ==
    /\ last.op = "fatal"
    /\ exited
    /\ Len(stderr) >= 4
    /\ stderr[1].kind = "prefix"
    /\ stderr[2].kind = "label"
    /\ ~warnings

\* C4 as claimed: with warnings_are_fatal clear, a fragment is preceded by a
\* label exactly when it is the first fragment written or the fragment
\* written before it holds a line terminator in its text.
C4_AsClaimed ==
    ~warnings_are_fatal =>
        LET W == WarningLog
        IN \A i \in 1..Len(W) :
              W[i].kind = "text" =>
                 (Labelled(W, i) <=>
                    \/ TextsBefore(W, i) = {}
                    \/ HasNL(W[PrevText(W, i)].out))

\* C4 amended: with warnings_are_fatal clear, a fragment is preceded by a
\* label exactly when it is the first fragment written or the format string
\* of the fragment written before it holds a line terminator; and every
\* label is followed by a fragment.
C4_LabelOncePerMessage ==
    ~warnings_are_fatal =>
        LET W == WarningLog
        IN \A i \in 1..Len(W) :
              /\ W[i].kind = "text" =>
                   (Labelled(W, i) <=>
                      \/ TextsBefore(W, i) = {}
                      \/ HasNL(W[PrevText(W, i)].fmt))
              /\ W[i].kind = "label" =>
                   (i < Len(W) /\ W[i + 1].kind = "text")

C4_Witness ==
    /\ ~warnings_are_fatal
    /\ Len(WarningLog) = 4
    /\ WarningLog[1].kind = "label"
    /\ WarningLog[2].kind = "text"
    /\ HasNL(WarningLog[2].fmt)
    /\ WarningLog[3].kind = "label"
    /\ WarningLog[4].kind = "text"

\* C8 as claimed: a call that wrote a fragment whose text holds a line
\* terminator ends the message: the process exits if warnings_are_fatal is
\* set, otherwise the start flag is set again.
C8_AsClaimed ==
    [][WarningEmitted =>
        (HasNL(stderr'[Len(stderr')].out) =>
            IF warnings_are_fatal THEN exited' ELSE warning_start')]_vars

\* C8 amended: a call that wrote a fragment ends the message exactly when
\* the format string holds a line terminator, whatever the arguments
\* substituted into it hold.
C8_EndsOnFormat ==
    [][WarningEmitted =>
        IF HasNL(last'.fmt)
        THEN IF warnings_are_fatal
             THEN exited'
             ELSE warning_start' /\ ~exited'
        ELSE ~warning_start' /\ ~exited']_vars

C8_Witness ==
    /\ last.op = "warning"
    /\ ~HasNL(last.fmt)
    /\ Len(stderr) > 0
    /\ stderr[Len(stderr)].kind = "text"
    /\ HasNL(stderr[Len(stderr)].out)
    /\ ~warning_start
    /\ ~exited

\* C9 as claimed: with warnings set and warnings_are_fatal clear, the first
\* fragment of a message of a category (no fragment of that category before
\* it, or the one before it ended its message) follows the label of that
\* category.
C9_AsClaimed ==
    (warnings /\ ~warnings_are_fatal) =>
        \A c \in Categories :
            LET W == SelectSeq(WarningLog, LAMBDA e : e.w = c)
            IN \A i \in 1..Len(W) :
                  (/\ W[i].kind = "text"
                   /\ \/ TextsBefore(W, i) = {}
                      \/ HasNL(W[PrevText(W, i)].fmt))
                  => (Labelled(W, i) /\ W[i - 1].out = LabelText(c))

\* C9 amended: the start flag is one flag shared by the two categories.  A
\* label is always the label of the category of the fragment that follows
\* it, a fragment written after a fragment of either category that ended
\* its message follows a label, and a fragment written after a fragment of
\* either category that did not end its message follows no label.
C9_SharedStart ==
    (warnings /\ ~warnings_are_fatal) =>
        LET W == WarningLog
        IN \A i \in 1..Len(W) :
              /\ W[i].kind = "label" =>
                   /\ i < Len(W)
                   /\ W[i + 1].kind = "text"
                   /\ W[i + 1].w = W[i].w
                   /\ W[i].out = LabelText(W[i].w)
              /\ (W[i].kind = "text" /\ TextsBefore(W, i) # {}) =>
                   (Labelled(W, i) <=> HasNL(W[PrevText(W, i)].fmt))

C9_Witness ==
    /\ warnings
    /\ ~warnings_are_fatal
    /\ Len(stderr) = 3
    /\ stderr[2].kind = "text"
    /\ stderr[2].w = "ParserWarning"
    /\ stderr[3].kind = "text"
    /\ stderr[3].w = "DeprecationWarning"

(***************************************************************************)
(* Properties of the entry points (checked under SpecDispatch).            *)
(***************************************************************************)
HandleOps ==
    {"py_transform", "py_generateCode", "py_generateExtracts",
     "py_generateAPI", "py_generateXML", "py_generateTypeHints"}
EntryOps == HandleOps \cup {"py_parse"}

NativeOf(op) ==
    CASE op = "py_parse" -> "parse"
      [] op = "py_transform" -> "transform"
      [] op = "py_generateCode" -> "generateCode"
      [] op = "py_generateExtracts" -> "generateExtracts"
      [] op = "py_generateAPI" -> "generateAPI"
      [] op = "py_generateXML" -> "generateXML"
      [] op = "py_generateTypeHints" -> "generateTypeHints"

UnitsOf(op) ==
    CASE op = "py_parse" ->
            <<"O&fs_convertor", "p", "O&stringList_convertor",
              "O&stringList_convertor", "O&stringList_convertor", "p", "p">>
      [] op = "py_transform" -> <<"O&sipSpec_convertor", "p">>
      [] op = "py_generateCode" ->
            <<"O&sipSpec_convertor", "O&fs_convertor", "O&fs_convertor",
              "p", "p", "p", "i", "O&stringList_convertor",
              "O&stringList_convertor", "p", "p", "s">>
      [] op = "py_generateExtracts" ->
            <<"O&sipSpec_convertor", "O&stringList_convertor">>
      [] OTHER -> <<"O&sipSpec_convertor", "O&fs_convertor">>

\* Some argument of the call is one its format unit does not convert.
SomeConversionFails(op, args) ==
    \E i \in 1..Len(args) : Convert(UnitsOf(op)[i], args[i]).ret = 0

\* C5: every capsule py_parse returned wraps the non-null pointer handed to
\* the native parser; such a capsule is converted by every entry point that
\* takes a parse tree, each time to that same pointer; a value that is not
\* a capsule is refused with TypeError "parse tree expected"; a capsule
\* whose pointer is null is refused; and no call changes or drops a capsule
\* the host holds.
C5_Handles ==
    /\ [](/\ \A c \in capsules :
                c.k = "capsule" /\ c.name = NoName /\ c.ptr \in 1..n_alloc
          /\ (last.op = "py_parse" /\ last.ret.k = "capsule") =>
                /\ last.ret \in capsules
                /\ last.ret.ptr = last.native[1].args[1]
          /\ last.op \in HandleOps =>
                LET h == last.args[1]
                    r == last.parsed
                IN /\ h \in capsules =>
                         /\ r.pos # 1
                         /\ r.outs[1] = [set |-> TRUE, out |-> h.ptr]
                         /\ r.ok => last.native[1].args[1] = h.ptr
                   /\ h.k # "capsule" =>
                         /\ r.pos = 1
                         /\ r.err = "TypeError: parse tree expected"
                         /\ last.ret = RetNull
                   /\ (h.k = "capsule" /\ h.ptr = 0) =>
                         (r.pos = 1 /\ last.ret = RetNull))
    /\ [][capsules \subseteq capsules']_vars

C5_Witness ==
    /\ last.op = "py_generateTypeHints"
    /\ last.parsed.ok
    /\ last.ret = PyNone
    /\ native_count = 3
    /\ Cardinality(capsules) = 1

\* C6: a call of an entry point one of whose arguments is not converted
\* returns NULL to the host, invokes no native operation and changes
\* nothing else; a call whose arguments are all converted invokes its own
\* native operation, and only that one, once.
C6_AllOrNothing ==
    [][last'.op \in EntryOps =>
        IF SomeConversionFails(last'.op, last'.args)
        THEN /\ last'.ret = RetNull
             /\ last'.native = <<>>
             /\ native_count' = native_count
             /\ UNCHANGED <<n_alloc, capsules, diag_vars, glob_vars>>
        ELSE /\ Len(last'.native) = 1
             /\ last'.native[1].op = NativeOf(last'.op)
             /\ native_count' = native_count + 1]_vars

C6_Witness ==
    /\ last.op = "py_generateCode"
    /\ last.ret = RetNull
    /\ last.parsed.pos = 12
    /\ last.native = <<>>
    /\ native_count = 1

\* The string list argument of the last call of py_generateExtracts, when
\* its parse tree was converted (so that the list convertor ran).
ExtractsRan ==
    /\ last.op = "py_generateExtracts"
    /\ last.parsed.pos # 1

AllText(l) == l.k = "list" /\ \A i \in 1..Len(l.items) : l.items[i].k = "str"
AllEncodable(l) == AllText(l) /\ \A i \in 1..Len(l.items) : Encode(l.items[i]).ok

\* C7 as claimed: every list of str converts to a native list of the same
\* length whose i-th node holds the i-th element; no value converts to the
\* null list; a value that is no sequence fails with the list TypeError and
\* leaves the null list.
C7_AsClaimed ==
    ExtractsRan =>
        LET l == last.args[2]
            r == last.parsed
            sl == r.outs[2].out
        IN /\ AllText(l) =>
                 /\ r.ok
                 /\ ListLen(sl) = Len(l.items)
                 /\ \A i \in 1..Len(l.items) :
                       ListNth(sl, i) = CStr(Encode(l.items[i]).bytes)
           /\ l = PyNone => (r.ok /\ sl = NullList)
           /\ l.k \notin {"None", "list", "tuple", "str"} =>
                 /\ ~r.ok
                 /\ r.err = "TypeError: list of str expected"
                 /\ sl = NullList

\* C7 amended: every list of str that can all be encoded converts to a
\* native list of the same length whose i-th node holds the bytes of the
\* i-th element; no value converts to the null list; every other value that
\* is not a list (a tuple or a str as well) fails with the list TypeError
\* and leaves the null list; a list with an element that cannot be encoded
\* fails and leaves the nodes of the elements before that one.
C7_StringList ==
    ExtractsRan =>
        LET l == last.args[2]
            r == last.parsed
            sl == r.outs[2].out
        IN /\ r.outs[2].set
           /\ AllEncodable(l) =>
                 /\ r.ok
                 /\ last.native[1].args[2] = sl
                 /\ ListLen(sl) = Len(l.items)
                 /\ \A i \in 1..Len(l.items) :
                       ListNth(sl, i) = CStr(Encode(l.items[i]).bytes)
           /\ l = PyNone => (r.ok /\ sl = NullList)
           /\ l.k \notin {"None", "list"} =>
                 /\ ~r.ok
                 /\ r.err = "TypeError: list of str expected"
                 /\ sl = NullList
                 /\ last.native = <<>>
           /\ (l.k = "list" /\ ~AllEncodable(l)) =>
                 LET bad == CHOOSE i \in 1..Len(l.items) :
                               /\ ~Encode(l.items[i]).ok
                               /\ \A j \in 1..(i - 1) : Encode(l.items[j]).ok
                 IN /\ ~r.ok
                    /\ ListLen(sl) = bad - 1
                    /\ \A j \in 1..(bad - 1) :
                          ListNth(sl, j) = CStr(Encode(l.items[j]).bytes)

C7_Witness ==
    /\ ExtractsRan
    /\ last.parsed.ok
    /\ last.args[2] = PyList(<<PyStr(<<"a">>), PyStr(<<"b">>)>>)
    /\ ListLen(last.native[1].args[2]) = 2

\* The position of a path parameter that is reached by the parse of the
\* last call: the first of py_parse, the second of the three generators
\* whose parse tree was converted.
PathPos ==
    IF last.op = "py_parse"
    THEN 1
    ELSE IF /\ last.op \in {"py_generateAPI", "py_generateXML",
                            "py_generateTypeHints"}
            /\ last.parsed.pos # 1
    THEN 2
    ELSE 0

\* C10 as claimed: no value converts to the null path and every str, the
\* empty one too, converts to a non-null string; py_parse hands the native
\* parser stdin and the name "stdin" when its path is no value, and
\* otherwise no file and the given name.
C10_AsClaimed ==
    PathPos # 0 =>
        LET a == last.args[PathPos]
            r == last.parsed
            path == r.outs[PathPos]
        IN /\ a = PyNone => (r.pos # PathPos /\ path.set /\ path.out = NullStr)
           /\ a.k = "str" =>
                 (r.pos # PathPos /\ path.set /\ ~path.out.null)
           /\ (last.op = "py_parse" /\ r.ok) =>
                 IF a = PyNone
                 THEN /\ last.native[1].args[2] = "stdin"
                      /\ last.native[1].args[3] =
                            CStr(<<115, 116, 100, 105, 110>>)
                 ELSE /\ last.native[1].args[2] = "NULL"
                      /\ last.native[1].args[3] = CStr(Encode(a).bytes)

\* C10 amended: no value converts to the null path; every str that can be
\* encoded, the empty one too, converts to a non-null string holding its
\* bytes; a str that cannot be encoded fails the conversion and writes no
\* path at all; a call of py_parse that reaches the native parser hands it
\* stdin and the name "stdin" exactly when its path is no value, and
\* otherwise no file and the bytes of the given name.
C10_PathNeverConflated ==
    PathPos # 0 =>
        LET a == last.args[PathPos]
            r == last.parsed
            path == r.outs[PathPos]
        IN /\ a = PyNone => (r.pos # PathPos /\ path.set /\ path.out = NullStr)
           /\ (a.k = "str" /\ Encode(a).ok) =>
                 /\ r.pos # PathPos
                 /\ path.set
                 /\ path.out = CStr(Encode(a).bytes)
                 /\ ~path.out.null
           /\ (a.k = "str" /\ ~Encode(a).ok) =>
                 (r.pos = PathPos /\ ~path.set /\ last.native = <<>>)
           /\ (path.set /\ path.out.null) => a = PyNone
           /\ (last.op = "py_parse" /\ r.ok) =>
                 /\ (last.native[1].args[2] = "stdin") <=> (a = PyNone)
                 /\ IF a = PyNone
                    THEN last.native[1].args[3] =
                            CStr(<<115, 116, 100, 105, 110>>)
                    ELSE /\ last.native[1].args[2] = "NULL"
                         /\ last.native[1].args[3] = CStr(Encode(a).bytes)

C10_Witness ==
    /\ last.op = "py_parse"
    /\ last.args[1] = PyStr(<<>>)
    /\ last.parsed.ok
    /\ last.native[1].args[2] = "NULL"
    /\ last.native[1].args[3] = CStr(<<>>)

====
